---- MODULE Spec2Model ----
(***************************************************************************)
(* A model of senpa's firewall-log parser (src/src/log.rs, ip.rs,          *)
(* packet_filter.rs, protocol.rs, utils.rs).                               *)
(*                                                                         *)
(* A log line is a sequence of one-character strings.  Every nom parser of *)
(* the source is an operator from the unconsumed input to a result record  *)
(* [ok, rest, val]; parse_log is the four-step state machine that threads  *)
(* the remainder from one stage to the next.                               *)
(***************************************************************************)
EXTENDS Integers, Sequences, FiniteSets, TLC

(* ------------------------------------------------------------------ *)
(* Characters                                                          *)
(* ------------------------------------------------------------------ *)

Digit == {"0", "1", "2", "3", "4", "5", "6", "7", "8", "9"}

Letter ==
    {"a", "b", "c", "d", "e", "f", "g", "h", "i", "j", "k", "l", "m",
     "n", "o", "p", "q", "r", "s", "t", "u", "v", "w", "x", "y", "z",
     "A", "B", "C", "D", "E", "F", "G", "H", "I", "J", "K", "L", "M",
     "N", "O", "P", "Q", "R", "S", "T", "U", "V", "W", "X", "Y", "Z"}

Alnum == Digit \cup Letter

HexDigit == Digit \cup {"a", "b", "c", "d", "e", "f", "A", "B", "C", "D", "E", "F"}

DigitVal ==
    [c \in HexDigit |->
        CASE c = "0" -> 0 [] c = "1" -> 1 [] c = "2" -> 2 [] c = "3" -> 3
          [] c = "4" -> 4 [] c = "5" -> 5 [] c = "6" -> 6 [] c = "7" -> 7
          [] c = "8" -> 8 [] c = "9" -> 9
          [] c \in {"a", "A"} -> 10 [] c \in {"b", "B"} -> 11
          [] c \in {"c", "C"} -> 12 [] c \in {"d", "D"} -> 13
          [] c \in {"e", "E"} -> 14 [] c \in {"f", "F"} -> 15]

(* ------------------------------------------------------------------ *)
(* Parser results and the nom primitives the source uses               *)
(* ------------------------------------------------------------------ *)

Err == [ok |-> FALSE, rest |-> <<>>, val |-> <<>>]

Ok(rest, val) == [ok |-> TRUE, rest |-> rest, val |-> val]

None == [some |-> FALSE]

Some(v) == [some |-> TRUE, v |-> v]

Range(f) == {f[i] : i \in DOMAIN f}

Drop(input, n) == SubSeq(input, n + 1, Len(input))

Take(input, n) == SubSeq(input, 1, n)

\* Length of the longest prefix of input whose characters satisfy "in S"
\* (inS = TRUE) or "not in S" (inS = FALSE).
PrefixLen(input, S, inS) ==
    LET stop == {i \in 1..Len(input) : (input[i] \in S) # inS}
    IN  IF stop = {} THEN Len(input)
        ELSE (CHOOSE i \in stop : \A j \in stop : i <= j) - 1

\* nom tag(t)
tag(t, input) ==
    IF Len(input) >= Len(t) /\ Take(input, Len(t)) = t
    THEN Ok(Drop(input, Len(t)), t)
    ELSE Err

\* nom char(',') applied to the rest of an earlier result: terminated(p, char(','))
csv(r) ==
    IF r.ok /\ Len(r.rest) > 0 /\ r.rest[1] = ","
    THEN Ok(Tail(r.rest), r.val)
    ELSE Err

\* opt as it would be if the field were required: an error of p stays one
opt_required(r, input) == IF r.ok THEN Ok(r.rest, Some(r.val)) ELSE Err

\* nom opt(p): an error of p is None and consumes nothing
opt(r, input) == IF r.ok THEN Ok(r.rest, Some(r.val)) ELSE Ok(input, None)

\* nom eof applied to the rest of an earlier result: terminated(p, eof)
eof(r) == IF r.ok /\ r.rest = <<>> THEN r ELSE Err

\* nom alphanumeric1
alphanumeric1(input) ==
    LET n == PrefixLen(input, Alnum, TRUE)
    IN  IF n = 0 THEN Err ELSE Ok(Drop(input, n), Take(input, n))

\* take_while(|c| c != ',')
parse_utf8_string(input) ==
    LET n == PrefixLen(input, {","}, FALSE)
    IN  Ok(Drop(input, n), Take(input, n))

\* nom take_till(|c| c == ',')
take_till_comma(input) ==
    LET n == PrefixLen(input, {","}, FALSE)
    IN  Ok(Drop(input, n), Take(input, n))

\* nom rest
rest(input) == Ok(<<>>, input)

(* ------------------------------------------------------------------ *)
(* Unsigned decimal numbers: nom u8 / u16 / u32                        *)
(*                                                                     *)
(* The value is accumulated digit by digit with checked_mul(10) and    *)
(* checked_add(d); it is kept as two 16-bit limbs <<hi, lo>> so that   *)
(* the 32-bit range is exact.                                          *)
(* ------------------------------------------------------------------ *)

Limb == 256 * 256

\* Fits as it would be with unchecked arithmetic: nothing is too great
FitsUnchecked(hi, lo, w) == TRUE

\* Does hi * 2^16 + lo fit an unsigned integer of w bits?
Fits(hi, lo, w) ==
    CASE w = 8  -> hi = 0 /\ lo <= 255
      [] w = 16 -> hi = 0
      [] w = 32 -> hi < Limb

RECURSIVE Accumulate(_, _, _, _, _, _)
\* digits[i..] folded into <<hi, lo>> in the given radix; <<-1, -1>> on overflow
Accumulate(digits, i, hi, lo, radix, w) ==
    IF i > Len(digits) THEN <<hi, lo>>
    ELSE IF Fits(hi * radix + ((lo * radix + DigitVal[digits[i]]) \div Limb),
                 (lo * radix + DigitVal[digits[i]]) % Limb, w)
    THEN Accumulate(digits, i + 1,
                    hi * radix + ((lo * radix + DigitVal[digits[i]]) \div Limb),
                    (lo * radix + DigitVal[digits[i]]) % Limb, radix, w)
    ELSE <<-1, -1>>

\* The typed value: an Int for u8 and u16, the limb pair for u32
Typed(v, w) == IF w = 32 THEN v ELSE v[2]

\* The value v of w bits with what follows it, an error when it overflowed
number(after, v, w) == IF v = <<-1, -1>> THEN Err ELSE Ok(after, Typed(v, w))

digits_value(input, n, w) ==
    IF n = 0 THEN Err
    ELSE number(Drop(input, n), Accumulate(Take(input, n), 1, 0, 0, 10, w), w)

parse_uint(input, w) == digits_value(input, PrefixLen(input, Digit, TRUE), w)

parse_u8(input) == parse_uint(input, 8)

parse_u16(input) == parse_uint(input, 16)

parse_u32(input) == parse_uint(input, 32)

\* utils.rs hexadecimal_value
hex_prefix(input) ==
    IF tag(<<"0", "x">>, input).ok THEN tag(<<"0", "x">>, input)
    ELSE tag(<<"0", "X">>, input)

\* hex_digits as it would be if the value were cut to its low eight bits
hex_digits_wrapping(p, n) ==
    IF ~p.ok \/ n = 0 THEN Err
    ELSE Ok(Drop(p.rest, n),
            Accumulate(Take(p.rest, n), 1, 0, 0, 16, 32)[2] % 256)

\* map_res(recognize(many1(one_of(hex digits))), u8::from_str_radix(_, 16))
hex_digits(p, n) ==
    IF ~p.ok \/ n = 0 THEN Err
    ELSE number(Drop(p.rest, n), Accumulate(Take(p.rest, n), 1, 0, 0, 16, 8), 8)

hex_after(p) == hex_digits(p, PrefixLen(p.rest, HexDigit, TRUE))

hexadecimal_value(input) == hex_after(hex_prefix(input))

(* ------------------------------------------------------------------ *)
(* std::net address grammars, as Ipv4Addr::from_str and                *)
(* Ipv6Addr::from_str decide them (the whole token must be consumed)   *)
(* ------------------------------------------------------------------ *)

RECURSIVE Split(_, _)
\* The pieces of s between the occurrences of character c
Split(s, c) ==
    IF c \notin Range(s) THEN <<s>>
    ELSE <<Take(s, PrefixLen(s, {c}, FALSE))>>
         \o Split(Drop(s, PrefixLen(s, {c}, FALSE) + 1), c)

\* read_number(10, max_digits 3, no zero prefix) as u8
IsOctet(p) ==
    /\ Len(p) \in 1..3
    /\ \A i \in 1..Len(p) : p[i] \in Digit
    /\ (Len(p) > 1 => p[1] # "0")
    /\ Accumulate(p, 1, 0, 0, 10, 8) # <<-1, -1>>

OctetVal(p) == Accumulate(p, 1, 0, 0, 10, 8)[2]

\* read_number(16, max_digits 4) as u16
IsGroup(p) ==
    /\ Len(p) \in 1..4
    /\ \A i \in 1..Len(p) : p[i] \in HexDigit

GroupVal(p) == Accumulate(p, 1, 0, 0, 16, 16)[2]

\* Ipv4Addr::from_str: four octets separated by dots
Ipv4FromStr(tok) ==
    LET parts == Split(tok, ".")
    IN  IF Len(parts) = 4 /\ \A i \in 1..4 : IsOctet(parts[i])
        THEN Ok(<<>>, [i \in 1..4 |-> OctetVal(parts[i])])
        ELSE Err

\* The groups of a dotted quad that ends an IPv6 address
QuadGroups(q) == <<q[1] * 256 + q[2], q[3] * 256 + q[4]>>

\* How many of the pieces ps are hexadecimal groups: all, or all but a last
\* one that reads as a dotted quad where that is allowed
HexCount(ps, v4last, quad) ==
    IF v4last /\ quad.ok THEN Len(ps) - 1 ELSE Len(ps)

\* The groups of the pieces ps; quad is the last piece read as a dotted quad
GroupsOf(ps, hexN, quad) ==
    IF \A i \in 1..hexN : IsGroup(ps[i])
    THEN [i \in 1..hexN |-> GroupVal(ps[i])]
         \o (IF hexN = Len(ps) THEN <<>> ELSE QuadGroups(quad.val))
    ELSE <<-1>>

WithQuad(ps, v4last, quad) == GroupsOf(ps, HexCount(ps, v4last, quad), quad)

Pieces(ps, v4last) == WithQuad(ps, v4last, Ipv4FromStr(ps[Len(ps)]))

\* read_groups: the groups of a run of colon-separated pieces; the last
\* piece may be a dotted quad when v4last allows it
PieceGroups(s, v4last) ==
    IF s = <<>> THEN <<>> ELSE Pieces(Split(s, ":"), v4last)

\* The places of tok where a "::" starts
DoubleColons(tok) ==
    {i \in 1..(Len(tok) - 1) : tok[i] = ":" /\ tok[i + 1] = ":"}

\* An address without "::" has exactly eight groups
WholeAddr(g) == IF g # <<-1>> /\ Len(g) = 8 THEN Ok(<<>>, g) ELSE Err

\* "::" stands for one or more zero groups between the head and the tail
AroundZeros(head, tail) ==
    IF head # <<-1>> /\ tail # <<-1>> /\ Len(head) + Len(tail) <= 7
    THEN Ok(<<>>, head \o [i \in 1..(8 - Len(head) - Len(tail)) |-> 0] \o tail)
    ELSE Err

SplitAt(tok, k) ==
    AroundZeros(PieceGroups(Take(tok, k - 1), FALSE),
                PieceGroups(Drop(tok, k + 1), TRUE))

AtDoubleColons(tok, dbl) ==
    IF dbl = {} THEN WholeAddr(PieceGroups(tok, TRUE))
    ELSE IF Cardinality(dbl) > 1 THEN Err
    ELSE SplitAt(tok, CHOOSE i \in dbl : TRUE)

\* Ipv6Addr::from_str: eight groups, or a head and a tail around one "::"
Ipv6FromStr(tok) == AtDoubleColons(tok, DoubleColons(tok))

(* ------------------------------------------------------------------ *)
(* packet_filter.rs: the keyword parsers                               *)
(* ------------------------------------------------------------------ *)

\* nom peek(char(',')): the next character is a comma, nothing is consumed
peek_comma(r) ==
    IF r.ok /\ Len(r.rest) > 0 /\ r.rest[1] = "," THEN r ELSE Err

kw_in == <<"i", "n">>
kw_out == <<"o", "u", "t">>
kw_match == <<"m", "a", "t", "c", "h">>
kw_pass == <<"p", "a", "s", "s">>
kw_block == <<"b", "l", "o", "c", "k">>
kw_reject == <<"r", "e", "j", "e", "c", "t">>

\* the keyword's value when the keyword parser succeeded, an error otherwise
from_str(t, table) ==
    IF t.ok /\ t.val \in DOMAIN table THEN Ok(t.rest, table[t.val]) ELSE Err

\* The direction keyword as it would be matched by a parser that takes the
\* whole token and looks only at how it begins
dir_keyword_prefix(input) ==
    IF tag(kw_in, input).ok THEN Ok(take_till_comma(input).rest, kw_in)
    ELSE IF tag(kw_out, input).ok THEN Ok(take_till_comma(input).rest, kw_out)
    ELSE Err

Dir_from_str == kw_in :> "In" @@ kw_out :> "Out"

dir_keyword(input) ==
    IF tag(kw_in, input).ok THEN tag(kw_in, input) ELSE tag(kw_out, input)

parse_dir(input) == from_str(peek_comma(dir_keyword(input)), Dir_from_str)

Reason_from_str == kw_match :> "Match"

parse_reason(input) ==
    from_str(peek_comma(tag(kw_match, input)), Reason_from_str)

Action_from_str ==
    kw_pass :> "Pass" @@ kw_block :> "Block" @@ kw_reject :> "Reject"

action_keyword(input) ==
    IF tag(kw_pass, input).ok THEN tag(kw_pass, input)
    ELSE IF tag(kw_block, input).ok THEN tag(kw_block, input)
    ELSE tag(kw_reject, input)

parse_action(input) ==
    from_str(peek_comma(action_keyword(input)), Action_from_str)

(* ------------------------------------------------------------------ *)
(* ip.rs: the address parsers                                          *)
(* ------------------------------------------------------------------ *)

\* match Addr::from_str(addr): Ok(addr) => Ok((next, addr)), Err(_) => fail
addr_or_fail(t, a) == IF a.ok THEN Ok(t.rest, a.val) ELSE Err

ipv4_of_token(t) == addr_or_fail(t, Ipv4FromStr(t.val))

ipv6_of_token(t) == addr_or_fail(t, Ipv6FromStr(t.val))

\* parse_ipv4_addr as it would be if a token that is no IPv4 address were
\* tried as an IPv6 address
parse_ipv4_addr_or_other(input) ==
    IF ipv4_of_token(take_till_comma(input)).ok
    THEN ipv4_of_token(take_till_comma(input))
    ELSE ipv6_of_token(take_till_comma(input))

parse_ipv4_addr(input) == ipv4_of_token(take_till_comma(input))

parse_ipv6_addr(input) == ipv6_of_token(take_till_comma(input))

(* ------------------------------------------------------------------ *)
(* Sequencing: `let (next, x) = csv(p)(next)?`                         *)
(* ------------------------------------------------------------------ *)

\* The field parser named p applied to input
Apply(p, input) ==
    CASE p = "u8"        -> parse_u8(input)
      [] p = "u16"       -> parse_u16(input)
      [] p = "u32"       -> parse_u32(input)
      [] p = "hex"       -> hexadecimal_value(input)
      [] p = "alnum"     -> alphanumeric1(input)
      [] p = "utf8"      -> parse_utf8_string(input)
      [] p = "take_till" -> take_till_comma(input)
      [] p = "reason"    -> parse_reason(input)
      [] p = "action"    -> parse_action(input)
      [] p = "dir"       -> parse_dir(input)
      [] p = "IpV4"      -> parse_ipv4_addr(input)
      [] p = "Ipv6"      -> parse_ipv6_addr(input)
      [] p = "rest"      -> rest(input)

\* One more field read after the fields of prev: its value is appended to
\* theirs.  how is "csv" for csv(p), "opt" for csv(opt(p)), "eof" for
\* terminated(p, eof) and "bare" for p alone.
wrap(how, r, input) ==
    CASE how = "csv"  -> csv(r)
      [] how = "opt"  -> csv(opt(r, input))
      [] how = "eof"  -> eof(r)
      [] how = "bare" -> r

field(prev, how, p) == wrap(how, Apply(p, prev.rest), prev.rest)

push(prev, r) == IF r.ok THEN Ok(r.rest, Append(prev.val, r.val)) ELSE Err

RECURSIVE sequence(_, _)
\* The fields fs read one after the other from what prev left; the first
\* that fails ends the sequence (the ? operator)
sequence(prev, fs) ==
    IF ~prev.ok THEN Err
    ELSE IF fs = <<>> THEN prev
    ELSE sequence(push(prev, field(prev, fs[1][1], fs[1][2])), Tail(fs))

\* The input before any field is read
Start(input) == Ok(input, <<>>)

\* The result of a sub-parser as the first value of a sequence
first(r) == IF r.ok THEN Ok(r.rest, <<r.val>>) ELSE Err

(* ------------------------------------------------------------------ *)
(* packet_filter.rs                                                    *)
(* ------------------------------------------------------------------ *)

RuleInfo(r) ==
    IF r.ok
    THEN Ok(r.rest, [number     |-> r.val[1],
                     subrulenr  |-> r.val[2],
                     anchorname |-> r.val[3],
                     label      |-> r.val[4]])
    ELSE Err

parse_rule_info(input) ==
    RuleInfo(sequence(Start(input),
        <<<<"csv", "u32">>,       \* rulenr
          <<"opt", "u32">>,       \* subrulenr
          <<"opt", "alnum">>,     \* anchorname
          <<"csv", "alnum">>>>))  \* label

PacketFilter(r) ==
    IF r.ok
    THEN Ok(r.rest, [rule_info |-> r.val[1],
                     interface |-> r.val[2],
                     reason    |-> r.val[3],
                     action    |-> r.val[4],
                     dir       |-> r.val[5]])
    ELSE Err

parse_packet_filter(input) ==
    PacketFilter(sequence(first(parse_rule_info(input)),
        <<<<"csv", "utf8">>,      \* interface
          <<"csv", "reason">>,
          <<"csv", "action">>,
          <<"csv", "dir">>>>))

(* ------------------------------------------------------------------ *)
(* protocol.rs                                                         *)
(* ------------------------------------------------------------------ *)

kw_tcp == <<"t", "c", "p">>
kw_udp == <<"u", "d", "p">>

\* A Result<ProtoName, ()> that is Ok(name)
OkName(name) == [ok |-> TRUE, val |-> name]

\* What stands in the place of a value when unwrap panics
Panic == [tag |-> "Panic"]

\* Result::unwrap: the value of Ok, a panic on Err
unwrap(r) == IF r.ok THEN r.val ELSE Panic

\* ProtoName::from_str as it would be if only udp and tcp were known
ProtoName_from_str_known(s) ==
    IF s = kw_udp THEN OkName([tag |-> "Udp"])
    ELSE IF s = kw_tcp THEN OkName([tag |-> "Tcp"])
    ELSE [ok |-> FALSE, val |-> <<>>]

\* ProtoName::from_str: every arm is Ok
ProtoName_from_str(s) ==
    IF s = kw_udp THEN OkName([tag |-> "Udp"])
    ELSE IF s = kw_tcp THEN OkName([tag |-> "Tcp"])
    ELSE OkName([tag |-> "Other", name |-> s])

Ports(r) ==
    IF r.ok THEN Ok(r.rest, [srcport |-> r.val[1], dstport |-> r.val[2]])
    ELSE Err

parse_src_dst_ports(input) ==
    Ports(sequence(Start(input), <<<<"csv", "u16">>, <<"csv", "u16">>>>))

TcpInfo(r) ==
    IF r.ok
    THEN Ok(r.rest, [tag |-> "TcpInfo",
                     ports           |-> r.val[1],
                     data_len        |-> r.val[2],
                     flags           |-> r.val[3],
                     sequence_number |-> r.val[4],
                     ack_number      |-> r.val[5],
                     window          |-> r.val[6],
                     urg             |-> r.val[7],
                     options         |-> r.val[8]])
    ELSE Err

\* parse_tcp_info as it would be if the options were one token that must
\* end the line, read like the udp payload length
parse_tcp_info_options_token(input) ==
    TcpInfo(sequence(first(parse_src_dst_ports(input)),
        <<<<"csv", "u32">>,        \* data_len
          <<"csv", "utf8">>,       \* flags
          <<"csv", "take_till">>,  \* sequence_number
          <<"opt", "u32">>,        \* ack_number
          <<"csv", "u32">>,        \* window
          <<"opt", "u32">>,        \* urg
          <<"eof", "utf8">>>>))    \* options

parse_tcp_info(input) ==
    TcpInfo(sequence(first(parse_src_dst_ports(input)),
        <<<<"csv", "u32">>,        \* data_len
          <<"csv", "utf8">>,       \* flags
          <<"csv", "take_till">>,  \* sequence_number
          <<"opt", "u32">>,        \* ack_number
          <<"csv", "u32">>,        \* window
          <<"opt", "u32">>,        \* urg
          <<"bare", "rest">>>>))   \* options

\* parse_udp_info as it would be without the eof after the payload length
parse_udp_info_no_eof(input) ==
    IF sequence(first(parse_src_dst_ports(input)), <<<<"bare", "u32">>>>).ok
    THEN Ok(sequence(first(parse_src_dst_ports(input)), <<<<"bare", "u32">>>>).rest,
            [tag      |-> "UdpInfo",
             ports    |-> sequence(first(parse_src_dst_ports(input)),
                                   <<<<"bare", "u32">>>>).val[1],
             data_len |-> sequence(first(parse_src_dst_ports(input)),
                                   <<<<"bare", "u32">>>>).val[2]])
    ELSE Err

UdpInfo(r) ==
    IF r.ok
    THEN Ok(r.rest, [tag |-> "UdpInfo", ports |-> r.val[1], data_len |-> r.val[2]])
    ELSE Err

parse_udp_info(input) ==
    UdpInfo(sequence(first(parse_src_dst_ports(input)), <<<<"eof", "u32">>>>))

UnknownInfo(r) ==
    IF r.ok THEN Ok(r.rest, [tag |-> "UnknownInfo", text |-> r.val[1]]) ELSE Err

\* terminated(parse_utf8_string, eof).map(ProtoInfo::UnknownInfo)
parse_unknown_info(input) ==
    UnknownInfo(sequence(Start(input), <<<<"eof", "utf8">>>>))

parse_proto_info(input, proto) ==
    CASE proto.tag = "Tcp"   -> parse_tcp_info(input)
      [] proto.tag = "Udp"   -> parse_udp_info(input)
      [] proto.tag = "Other" -> parse_unknown_info(input)

(* ------------------------------------------------------------------ *)
(* ip.rs                                                               *)
(* ------------------------------------------------------------------ *)

IpAddr(family, addr) == [family |-> family, addr |-> addr]

\* Family as it would be if both arms of the match wrapped with IpAddr::V4
FamilyAlwaysV4(specific) == "V4"

\* The std::net family the header's variant selects
Family(specific) == IF specific.tag = "IpV4" THEN "V4" ELSE "V6"

SrcDst(r, family) ==
    IF r.ok
    THEN Ok(r.rest, <<IpAddr(family, r.val[1]), IpAddr(family, r.val[2])>>)
    ELSE Err

\* csv(separated_pair(addr, char(','), addr)) with the address parser of
\* the header's variant
parse_src_dst_addr(input, specific) ==
    SrcDst(sequence(Start(input),
                    <<<<"csv", specific.tag>>, <<"csv", specific.tag>>>>),
           Family(specific))

IpData(length, addrs) ==
    IF addrs.ok
    THEN Ok(addrs.rest, [length |-> length.val[1],
                         src    |-> addrs.val[1],
                         dst    |-> addrs.val[2]])
    ELSE Err

length_then_addrs(length, specific) ==
    IF length.ok THEN IpData(length, parse_src_dst_addr(length.rest, specific))
    ELSE Err

parse_ip_data(input, specific) ==
    length_then_addrs(sequence(Start(input), <<<<"csv", "u16">>>>), specific)

\* IpV4 as it would be with ttl and id taken from each other's position
IpV4Swapped(r) ==
    IF r.ok
    THEN Ok(r.rest,
            <<[name |-> unwrap(ProtoName_from_str(r.val[8])), num |-> r.val[7]],
              [tag |-> "IpV4",
               version |-> 4,
               tos     |-> r.val[1],
               ecn     |-> r.val[2],
               ttl     |-> r.val[4],
               id      |-> r.val[3],
               offset  |-> r.val[5],
               flags   |-> r.val[6]]>>)
    ELSE Err

IpV4(r) ==
    IF r.ok
    THEN Ok(r.rest,
            <<[name |-> unwrap(ProtoName_from_str(r.val[8])), num |-> r.val[7]],
              [tag |-> "IpV4",
               version |-> 4,
               tos     |-> r.val[1],
               ecn     |-> r.val[2],
               ttl     |-> r.val[3],
               id      |-> r.val[4],
               offset  |-> r.val[5],
               flags   |-> r.val[6]]>>)
    ELSE Err

parse_ipv4_header(input) ==
    IpV4(sequence(Start(input),
        <<<<"csv", "hex">>,       \* tos
          <<"opt", "alnum">>,     \* ecn
          <<"csv", "u8">>,        \* ttl
          <<"csv", "u16">>,       \* id
          <<"csv", "u16">>,       \* offset
          <<"csv", "alnum">>,     \* flags
          <<"csv", "u8">>,        \* protonum
          <<"csv", "alnum">>>>))  \* protoname

IpV6(r) ==
    IF r.ok
    THEN Ok(r.rest,
            <<[name |-> unwrap(ProtoName_from_str(r.val[4])), num |-> r.val[5]],
              [tag |-> "Ipv6",
               traffic_class |-> r.val[1],
               flow_label    |-> r.val[2],
               hoplimit      |-> r.val[3]]>>)
    ELSE Err

V6HeaderOrder ==
    <<<<"csv", "hex">>,        \* traffic_class
      <<"csv", "alnum">>,      \* flow_label
      <<"csv", "u8">>,         \* hoplimit
      <<"csv", "take_till">>,  \* protoname
      <<"csv", "u8">>>>        \* protonum

\* parse_ipv6_header as it would be if it read the protocol name and number
\* before the hop limit
IpV6NameFirst(r) ==
    IF r.ok
    THEN Ok(r.rest,
            <<[name |-> unwrap(ProtoName_from_str(r.val[3])), num |-> r.val[4]],
              [tag |-> "Ipv6",
               traffic_class |-> r.val[1],
               flow_label    |-> r.val[2],
               hoplimit      |-> r.val[5]]>>)
    ELSE Err

parse_ipv6_header_name_first(input) ==
    IpV6NameFirst(sequence(Start(input),
        <<<<"csv", "hex">>,        \* traffic_class
          <<"csv", "alnum">>,      \* flow_label
          <<"csv", "take_till">>,  \* protoname
          <<"csv", "u8">>,         \* protonum
          <<"csv", "u8">>>>))      \* hoplimit

parse_ipv6_header(input) == IpV6(sequence(Start(input), V6HeaderOrder))

\* version_tag as it would be if the token only had to begin with 4 or 6
version_tag_prefix(input) ==
    IF tag(<<"4">>, input).ok THEN Ok(take_till_comma(input).rest, <<"4">>)
    ELSE IF tag(<<"6">>, input).ok THEN Ok(take_till_comma(input).rest, <<"6">>)
    ELSE Err

version_tag(input) ==
    IF tag(<<"4">>, input).ok THEN tag(<<"4">>, input) ELSE tag(<<"6">>, input)

dispatch_version(version) ==
    IF ~version.ok THEN Err
    ELSE IF version.val = <<"4">> THEN parse_ipv4_header(version.rest)
    ELSE IF version.val = <<"6">> THEN parse_ipv6_header(version.rest)
    ELSE Err

parse_ip_header(input) == dispatch_version(csv(version_tag(input)))

(* ------------------------------------------------------------------ *)
(* Input lines                                                         *)
(*                                                                     *)
(* A line is the comma-joined tokens of its fields.  The shape of a    *)
(* line says which header and trailer fields follow the filter fields. *)
(* ------------------------------------------------------------------ *)

RECURSIVE Join(_)
\* The tokens with a comma between each two
Join(ts) ==
    IF Len(ts) = 0 THEN <<>>
    ELSE IF Len(ts) = 1 THEN ts[1]
    ELSE ts[1] \o <<",">> \o Join(Tail(ts))

FilterFields ==
    <<"rulenr", "subrulenr", "anchorname", "label", "interface",
      "reason", "action", "dir">>

V4Fields ==
    <<"ipver", "tos", "ecn", "ttl", "id", "offset", "flags", "protonum",
      "protoname">>

\* the order parse_ipv6_header reads
V6Fields == <<"ipver", "class", "flowlabel", "hoplimit", "protoname", "protonum">>

\* the order the interface description gives for version 6
V6FieldsDoc == <<"ipver", "class", "flowlabel", "protoname", "protonum", "hoplimit">>

DataFields == <<"length", "src", "dst">>

TcpFields ==
    <<"srcport", "dstport", "datalen", "tcpflags", "seq", "ack", "window",
      "urg", "options">>

UdpFields == <<"srcport", "dstport", "udplen">>

OtherFields == <<"trailer">>

Shapes ==
    {[ver |-> v, proto |-> p, order |-> "code"] :
        v \in {4, 6}, p \in {"tcp", "udp", "other"}}
    \cup {[ver |-> 6, proto |-> p, order |-> "doc"] : p \in {"tcp", "udp"}}

HeaderFields(s) ==
    IF s.ver = 4 THEN V4Fields
    ELSE IF s.order = "code" THEN V6Fields ELSE V6FieldsDoc

ProtoFields(s) ==
    CASE s.proto = "tcp"   -> TcpFields
      [] s.proto = "udp"   -> UdpFields
      [] s.proto = "other" -> OtherFields

FieldOrder(s) == FilterFields \o HeaderFields(s) \o DataFields \o ProtoFields(s)

Line(s, t) == Join([i \in 1..Len(FieldOrder(s)) |-> t[FieldOrder(s)[i]]])

(* ------------------------------------------------------------------ *)
(* Reference tables: the well-formed tokens of each kind of field with *)
(* the typed value each denotes, and malformed tokens of the kind.     *)
(* The tables are written out by hand; the parsers above compute.      *)
(* ------------------------------------------------------------------ *)

U32Of ==
    <<"9", "6">> :> <<0, 96>> @@ <<"0">> :> <<0, 0>> @@ <<"0", "0", "7">> :> <<0, 7>>
    @@ <<"6", "5", "5", "3", "6">> :> <<1, 0>> @@ <<"6", "4", "2", "4", "0">> :> <<0, 64240>>
    @@ <<"8", "6">> :> <<0, 86>> @@ <<"4", "2", "9", "4", "9", "6", "7", "2", "9", "5">> :> <<65535, 65535>>

U32Bad == {<<>>, <<"a", "b">>, <<"9", "a">>, <<"-", "1">>, <<"4", "2", "9", "4", "9", "6", "7", "2", "9", "6">>, <<"9", "9", "9", "9", "9", "9", "9", "9", "9", "9", "9">>}

U16Of ==
    <<"5", "2">> :> 52 @@ <<"0">> :> 0 @@ <<"0", "0", "8", "0">> :> 80 @@ <<"9", "1", "0", "0">> :> 9100
    @@ <<"5", "2", "4", "6", "1">> :> 52461 @@ <<"6", "1", "6", "3", "3">> :> 61633 @@ <<"6", "5", "5", "3", "5">> :> 65535

U16Bad == {<<>>, <<"5", "2", "a", "s">>, <<"x">>, <<"6", "5", "5", "3", "6">>, <<"7", "0", "0", "0", "0">>}

U8Of ==
    <<"1", "2", "7">> :> 127 @@ <<"0">> :> 0 @@ <<"1">> :> 1 @@ <<"6">> :> 6
    @@ <<"1", "7">> :> 17 @@ <<"0", "6", "4">> :> 64 @@ <<"2", "5", "5">> :> 255

U8Bad == {<<>>, <<"1", "2", "7", "a", "b">>, <<"t", "c", "p">>, <<"2", "5", "6">>, <<"3", "0", "0">>}

HexOf ==
    <<"0", "x", "0">> :> 0 @@ <<"0", "x", "1", "0">> :> 16 @@ <<"0", "X", "0", "a">> :> 10 @@ <<"0", "X", "f", "F">> :> 255
    @@ <<"0", "x", "0", "0", "f", "f">> :> 255

HexBad == {<<>>, <<"0">>, <<"1", "0">>, <<"0", "x">>, <<"0", "x", "g">>, <<"0", "x", "1", "g">>, <<"0", "x", "1", "0", "0">>, <<"x", "1", "0">>}

AlnumGood == {<<"f", "a", "e", "5">>, <<"L", "2">>, <<"D", "F">>, <<"n", "o", "n", "e">>, <<"a", "b", "1">>, <<"0">>}

AlnumBad == {<<>>, <<"a", ".", "b">>, <<"a", "-", "b">>, <<"a", " ", "b">>}

TextGood == {<<"v", "l", "a", "n", "0", ".", "2", "0">>, <<"e", "m", "0">>, <<>>, <<"S">>, <<"S", "A">>, <<"3", "4", "4", "2", "4", "6", "8", "7", "6", "1">>, <<"1", ":", "5">>, <<"a", " ", "b">>}

ReasonOf == <<"m", "a", "t", "c", "h">> :> "Match"

ReasonBad == {<<>>, <<"m", "a", "t", "c", "h", "a">>, <<"m", "a", "t", "c">>, <<"M", "a", "t", "c", "h">>, <<"w", "r", "o", "n", "g">>, <<"p", "a", "s", "s">>}

ActionOf == <<"p", "a", "s", "s">> :> "Pass" @@ <<"b", "l", "o", "c", "k">> :> "Block" @@ <<"r", "e", "j", "e", "c", "t">> :> "Reject"

ActionBad ==
    {<<>>, <<"p", "a", "s", "s", "e", "r", "e", "l", "l", "a">>, <<"b", "l", "o", "c", "k", "e", "d">>, <<"r", "e", "j", "e", "c", "t", "e", "d">>, <<"p", "a", "s">>, <<"P", "A", "S", "S">>,
     <<"B", "l", "o", "c", "k">>, <<"w", "r", "o", "n", "g">>}

DirOf == <<"i", "n">> :> "In" @@ <<"o", "u", "t">> :> "Out"

DirBad == {<<>>, <<"i", "n", "n", "e", "r">>, <<"o", "u", "t", "e", "r">>, <<"i">>, <<"o", "u">>, <<"I", "N">>, <<"O", "u", "t">>, <<"w", "r", "o", "n", "g">>}

VerBad == {<<>>, <<"5">>, <<"4", "6">>, <<"6", "4">>, <<"4", "x">>, <<"4", "4">>}

Addr4Of ==
    <<"1", "0", ".", "0", ".", "0", ".", "1", "5">> :> <<10, 0, 0, 15>> @@ <<"1", "0", ".", "0", ".", "0", ".", "1", "4">> :> <<10, 0, 0, 14>>
    @@ <<"1", ".", "2", ".", "3", ".", "4">> :> <<1, 2, 3, 4>> @@ <<"2", "5", "5", ".", "0", ".", "0", ".", "1">> :> <<255, 0, 0, 1>>

Addr6Of ==
    <<":", ":", "1">> :> <<0, 0, 0, 0, 0, 0, 0, 1>>
    @@ <<"f", "e", "8", "0", ":", ":", "a">> :> <<65152, 0, 0, 0, 0, 0, 0, 10>>
    @@ <<"1", ":", "2", ":", "3", ":", "4", ":", "5", ":", "6", ":", "7", ":", "8">> :> <<1, 2, 3, 4, 5, 6, 7, 8>>
    @@ <<":", ":", "f", "f", "f", "f", ":", "1", ".", "2", ".", "3", ".", "4">> :> <<0, 0, 0, 0, 0, 65535, 258, 772>>

\* tokens of neither family
AddrBad ==
    {<<>>, <<"1", ".", "2", ".", "a", "3", ".", "4">>, <<"1", ".", "2", ".", "3">>, <<"2", "5", "6", ".", "1", ".", "1", ".", "1">>, <<"1", ".", "2", ".", "3", ".", "4", ".", "5">>, <<"g", ":", ":", "1">>,
     <<"1", ":", ":", ":", "2">>, <<"1", ":", "2">>, <<"1", "2", "3", "4", "5", ":", ":">>}

NameOther4 == {<<"i", "c", "m", "p">>, <<"T", "C", "P">>, <<"U", "d", "p">>, <<"t", "c", "p", "6">>}

NameOther6 == NameOther4 \cup {<<"i", "p", "v", "6", "-", "i", "c", "m", "p">>, <<>>, <<"t", " ", "c", "p">>}

RestGood == {<<>>, <<"m", "s", "s", ";", "n", "o", "p">>, <<"a", ",", "b">>, <<",">>, <<"n", "o", "p", ",">>}

\* what may follow a UDP payload length that is not the end of the line
UdpTrailing == {<<",">>, <<"x">>, <<",", "1">>, <<" ">>, <<",", ",">>}

UdpLenBad == U32Bad \cup {t \o x : t \in {<<"8", "6">>, <<"0">>}, x \in UdpTrailing}

TrailerGood == {<<"a", "b", "c">>, <<"a", " ", "b", ";", "c">>, <<"8">>}

TrailerComma == {<<"a", ",", "b">>, <<",">>, <<"r", "e", "q", "u", "e", "s", "t", ",", "1", ",", "2">>, <<"x", ",">>}

Opt(table) == [t \in DOMAIN table |-> Some(table[t])] @@ (<<>> :> None)

Same(S) == [t \in S |-> t]

Kind(f, s) ==
    CASE f \in {"rulenr", "datalen", "window"} -> "u32"
      [] f \in {"subrulenr", "ack", "urg"} -> "optu32"
      [] f \in {"anchorname", "ecn"} -> "optalnum"
      [] f \in {"label", "flags", "flowlabel"} -> "alnum"
      [] f \in {"interface", "tcpflags", "seq"} -> "text"
      [] f \in {"reason", "action", "dir"} -> f
      [] f = "ipver" -> "ver"
      [] f \in {"tos", "class"} -> "hex"
      [] f \in {"ttl", "hoplimit", "protonum"} -> "u8"
      [] f \in {"id", "offset", "length", "srcport", "dstport"} -> "u16"
      [] f = "protoname" -> "name"
      [] f \in {"src", "dst"} -> IF s.ver = 4 THEN "addr4" ELSE "addr6"
      [] f = "options" -> "rest"
      [] f = "udplen" -> "u32end"
      [] f = "trailer" -> "trailer"

ProtoTok(s) ==
    CASE s.proto = "tcp" -> kw_tcp [] s.proto = "udp" -> kw_udp
      [] s.proto = "other" -> <<"i", "c", "m", "p">>

\* The well-formed tokens of field f in a line of shape s, each with the
\* typed value the record should hold for it
TypedOf(f, s) ==
    LET k == Kind(f, s)
    IN  CASE k = "u32" -> U32Of
          [] k = "u32end" -> U32Of
          [] k = "optu32" -> Opt(U32Of)
          [] k = "u16" -> U16Of
          [] k = "u8" -> U8Of
          [] k = "hex" -> HexOf
          [] k = "alnum" -> Same(AlnumGood)
          [] k = "optalnum" -> Opt(Same(AlnumGood))
          [] k = "text" -> Same(TextGood)
          [] k = "reason" -> ReasonOf
          [] k = "action" -> ActionOf
          [] k = "dir" -> DirOf
          [] k = "ver" -> IF s.ver = 4 THEN <<"4">> :> 4 ELSE <<"6">> :> 6
          [] k = "addr4" -> [t \in DOMAIN Addr4Of |-> IpAddr("V4", Addr4Of[t])]
          [] k = "addr6" -> [t \in DOMAIN Addr6Of |-> IpAddr("V6", Addr6Of[t])]
          [] k = "name" ->
                IF s.proto = "tcp" THEN kw_tcp :> [tag |-> "Tcp"]
                ELSE IF s.proto = "udp" THEN kw_udp :> [tag |-> "Udp"]
                ELSE [t \in (IF s.ver = 4 THEN NameOther4 ELSE NameOther6) |->
                        [tag |-> "Other", name |-> t]]
          [] k = "rest" -> Same(RestGood)
          [] k = "trailer" -> Same(TrailerGood)

\* Malformed tokens of field f in a line of shape s
BadOf(f, s) ==
    LET k == Kind(f, s)
    IN  CASE k \in {"u32"} -> U32Bad
          [] k = "u32end" -> UdpLenBad
          [] k = "optu32" -> U32Bad \ {<<>>}
          [] k = "u16" -> U16Bad
          [] k = "u8" -> U8Bad
          [] k = "hex" -> HexBad
          [] k = "alnum" -> AlnumBad
          [] k = "optalnum" -> AlnumBad \ {<<>>}
          [] k = "text" -> {}
          [] k = "reason" -> ReasonBad
          [] k = "action" -> ActionBad
          [] k = "dir" -> DirBad
          [] k = "ver" -> VerBad \cup {IF s.ver = 4 THEN <<"6">> ELSE <<"4">>}
          [] k = "addr4" -> AddrBad \cup DOMAIN Addr6Of
          [] k = "addr6" -> AddrBad \cup DOMAIN Addr4Of
          [] k = "name" -> IF s.ver = 4 THEN AlnumBad \cup {<<"i", "p", "v", "6", "-", "i", "c", "m", "p">>} ELSE {}
          [] k = "rest" -> {}
          [] k = "trailer" -> {}

\* Every token the model tries in field f of a line of shape s
Alts(f, s) ==
    DOMAIN TypedOf(f, s) \cup BadOf(f, s)
    \cup (IF f = "trailer" THEN TrailerComma \cup {<<>>} ELSE {})

\* The line of the repository's tests (it_works_tcp, it_works_udp), with
\* the header and trailer of the shape
BaseA(s) ==
    [f \in Range(FieldOrder(s)) |->
        CASE f = "rulenr" -> <<"9", "6">>
          [] f \in {"subrulenr", "anchorname", "ecn", "ack", "urg"} -> <<>>
          [] f = "label" -> <<"f", "a", "e", "5">>
          [] f = "interface" -> <<"v", "l", "a", "n", "0", ".", "2", "0">>
          [] f = "reason" -> kw_match
          [] f = "action" -> kw_pass
          [] f = "dir" -> kw_out
          [] f = "ipver" -> IF s.ver = 4 THEN <<"4">> ELSE <<"6">>
          [] f \in {"tos", "class"} -> <<"0", "x", "0">>
          [] f \in {"ttl", "hoplimit"} -> <<"1", "2", "7">>
          [] f = "id" -> <<"6", "1", "6", "3", "3">>
          [] f \in {"offset", "datalen"} -> <<"0">>
          [] f = "flags" -> <<"D", "F">>
          [] f = "flowlabel" -> <<"a", "b", "1">>
          [] f = "protonum" ->
                (CASE s.proto = "tcp" -> <<"6">> [] s.proto = "udp" -> <<"1", "7">>
                   [] s.proto = "other" -> <<"1">>)
          [] f = "protoname" -> ProtoTok(s)
          [] f = "length" -> <<"5", "2">>
          [] f = "src" -> IF s.ver = 4 THEN <<"1", "0", ".", "0", ".", "0", ".", "1", "5">> ELSE <<"f", "e", "8", "0", ":", ":", "a">>
          [] f = "dst" -> IF s.ver = 4 THEN <<"1", "0", ".", "0", ".", "0", ".", "1", "4">> ELSE <<":", ":", "1">>
          [] f = "srcport" -> <<"5", "2", "4", "6", "1">>
          [] f = "dstport" -> <<"9", "1", "0", "0">>
          [] f = "tcpflags" -> <<"S">>
          [] f = "seq" -> <<"3", "4", "4", "2", "4", "6", "8", "7", "6", "1">>
          [] f = "window" -> <<"6", "4", "2", "4", "0">>
          [] f = "options" -> <<"m", "s", "s", ";", "n", "o", "p">>
          [] f = "udplen" -> <<"8", "6">>
          [] f = "trailer" -> <<"a", "b", "c">>]

\* A second well-formed line: every optional field present, other values
BaseB(s) ==
    [f \in Range(FieldOrder(s)) |->
        CASE f \in {"rulenr", "udplen"} -> <<"4", "2", "9", "4", "9", "6", "7", "2", "9", "5">>
          [] f \in {"subrulenr", "urg"} -> <<"0", "0", "7">>
          [] f = "anchorname" -> <<"a", "b", "1">>
          [] f = "ecn" -> <<"L", "2">>
          [] f = "label" -> <<"L", "2">>
          [] f = "interface" -> <<"e", "m", "0">>
          [] f = "reason" -> kw_match
          [] f = "action" -> kw_block
          [] f = "dir" -> kw_in
          [] f = "ipver" -> IF s.ver = 4 THEN <<"4">> ELSE <<"6">>
          [] f \in {"tos", "class"} -> <<"0", "X", "f", "F">>
          [] f \in {"ttl", "hoplimit"} -> <<"0", "6", "4">>
          [] f \in {"id", "srcport"} -> <<"0">>
          [] f \in {"offset", "length", "dstport"} -> <<"6", "5", "5", "3", "5">>
          [] f = "flags" -> <<"n", "o", "n", "e">>
          [] f = "flowlabel" -> <<"0">>
          [] f = "protonum" -> <<"2", "5", "5">>
          [] f = "protoname" ->
                IF s.proto = "other" THEN <<"T", "C", "P">> ELSE ProtoTok(s)
          [] f = "src" -> IF s.ver = 4 THEN <<"1", ".", "2", ".", "3", ".", "4">> ELSE <<"1", ":", "2", ":", "3", ":", "4", ":", "5", ":", "6", ":", "7", ":", "8">>
          [] f = "dst" -> IF s.ver = 4 THEN <<"2", "5", "5", ".", "0", ".", "0", ".", "1">> ELSE <<":", ":", "f", "f", "f", "f", ":", "1", ".", "2", ".", "3", ".", "4">>
          [] f = "datalen" -> <<"6", "5", "5", "3", "6">>
          [] f = "tcpflags" -> <<>>
          [] f = "seq" -> <<"1", ":", "5">>
          [] f = "ack" -> <<"9", "6">>
          [] f = "window" -> <<"0">>
          [] f = "options" -> <<>>
          [] f = "trailer" -> <<"a", " ", "b", ";", "c">>]

\* The malformed token the tests put into a field (packet_filter_fail,
\* ip_header_fail, ip_data_fail, protocol_specific_fail), by kind of field
Corruption(f, s) ==
    LET k == Kind(f, s)
    IN  CASE k \in {"u32", "optu32", "u32end"} -> <<"a", "b">>
          [] k = "u8" -> <<"1", "2", "7", "a", "b">>
          [] k = "u16" -> <<"5", "2", "a", "s">>
          [] k = "hex" -> <<"0", "x", "g">>
          [] k \in {"alnum", "optalnum"} -> <<"a", ".", "b">>
          [] k = "name" -> <<"a", "-", "b">>
          [] k = "reason" -> <<"m", "a", "t", "c", "h", "a">>
          [] k = "action" -> <<"b", "l", "o", "c", "k", "e", "d">>
          [] k = "dir" -> <<"i", "n", "n", "e", "r">>
          [] k = "ver" -> <<"5">>
          [] k \in {"addr4", "addr6"} -> <<"1", ".", "2", ".", "a", "3", ".", "4">>

Corruptible(s) == {f \in Range(FieldOrder(s)) : BadOf(f, s) # {}}

\* How many fields of one line the model corrupts together
MaxCorrupt == 2

RECURSIVE UpTo(_, _)
\* The subsets of S with at most k elements
UpTo(S, k) ==
    IF k = 0 THEN {{}}
    ELSE LET less == UpTo(S, k - 1)
         IN  less \cup {T \cup {x} : T \in less, x \in S}

Corrupted(s, J) ==
    [f \in Range(FieldOrder(s)) |->
        IF f \in J THEN Corruption(f, s) ELSE BaseA(s)[f]]

\* The token assignments of the lines of shape s the model parses: a base
\* line with one field replaced by any token tried for it, or the test
\* line with up to MaxCorrupt fields corrupted
Variants(s) ==
    UNION {{[b EXCEPT ![f] = a] : a \in Alts(f, s)} :
              b \in {BaseA(s), BaseB(s)}, f \in Range(FieldOrder(s))}
    \cup {Corrupted(s, J) : J \in UpTo(Corruptible(s), MaxCorrupt)}

(* ------------------------------------------------------------------ *)
(* log.rs: parse_log as a state machine, one step per stage            *)
(* ------------------------------------------------------------------ *)

VARIABLES
    input,          \* the line given to parse_log
    pc,             \* the stage parse_log is about to run, or "done"
    next,           \* the unconsumed remainder threaded between the stages
    packet_filter,  \* locals of parse_log, Unset until their stage has run
    protocol,
    ip_header,
    ip_data,
    result,         \* what parse_log returns, Unset until it returns
    stages,         \* the stages run so far, in order
    shape,          \* how the line was put together: its shape
    toks            \*   and the token of each of its fields

vars ==
    <<input, pc, next, packet_filter, protocol, ip_header, ip_data, result,
      stages, shape, toks>>

Unset == [tag |-> "Unset"]

FilterReason == "Failed to parse packet filter"
HeaderReason == "Failed to parse IP header"
DataReason == "Failed to parse IP data"
ProtoReason == "Failed to parse protocol-specific information"

\* LogParseError as it would be if raw_log were taken from the remainder the
\* failing stage was given instead of the input of parse_log
LogParseErrorOfRemainder(inp, remainder, reason) ==
    [tag |-> "Err", raw_log |-> remainder, reason |-> reason]

\* map_err(|_| LogParseError { raw_log: input.into(), reason })
LogParseError(inp, remainder, reason) ==
    [tag |-> "Err", raw_log |-> inp, reason |-> reason]

FwLog(pf, hdr, data, proto, info) ==
    [tag |-> "Ok",
     packet_filter |-> pf,
     ip_specific   |-> hdr,
     ip_data       |-> data,
     protocol      |-> proto,
     proto_info    |-> info]

Init ==
    /\ shape \in Shapes
    /\ toks \in Variants(shape)
    /\ input = Line(shape, toks)
    /\ pc = "filter"
    /\ next = input
    /\ packet_filter = Unset
    /\ protocol = Unset
    /\ ip_header = Unset
    /\ ip_data = Unset
    /\ result = Unset
    /\ stages = <<>>

\* The filter stage as it would be without the `?`: a failure is recorded
\* and parse_log goes on to the header stage
FilterStepGoingOn(r) ==
    IF r.ok
    THEN /\ next' = r.rest
         /\ packet_filter' = r.val
         /\ pc' = "header"
         /\ UNCHANGED result
    ELSE /\ result' = [tag |-> "Err", raw_log |-> input, reason |-> FilterReason]
         /\ pc' = "header"
         /\ UNCHANGED <<next, packet_filter>>

\* let (next, packet_filter) = parse_packet_filter(input).map_err(..)?
FilterStep(r) ==
    IF r.ok
    THEN /\ next' = r.rest
         /\ packet_filter' = r.val
         /\ pc' = "header"
         /\ UNCHANGED result
    ELSE /\ result' = LogParseError(input, next, FilterReason)
         /\ pc' = "done"
         /\ UNCHANGED <<next, packet_filter>>

ParsePacketFilter ==
    /\ pc = "filter"
    /\ stages' = Append(stages, "filter")
    /\ FilterStep(parse_packet_filter(input))
    /\ UNCHANGED <<input, protocol, ip_header, ip_data, shape, toks>>

\* let (next, (protocol, ip_header)) = parse_ip_header(next).map_err(..)?
\* A panic of the unwrap inside parse_ip_header ends the call with no value.
HeaderStep(r) ==
    IF r.ok /\ r.val[1].name = Panic
    THEN /\ result' = Panic
         /\ pc' = "done"
         /\ UNCHANGED <<next, protocol, ip_header>>
    ELSE IF r.ok
    THEN /\ next' = r.rest
         /\ protocol' = r.val[1]
         /\ ip_header' = r.val[2]
         /\ pc' = "data"
         /\ UNCHANGED result
    ELSE /\ result' = LogParseError(input, next, HeaderReason)
         /\ pc' = "done"
         /\ UNCHANGED <<next, protocol, ip_header>>

ParseIpHeader ==
    /\ pc = "header"
    /\ stages' = Append(stages, "header")
    /\ HeaderStep(parse_ip_header(next))
    /\ UNCHANGED <<input, packet_filter, ip_data, shape, toks>>

\* let (next, ip_data) = parse_ip_data(next, &ip_header).map_err(..)?
DataStep(r) ==
    IF r.ok
    THEN /\ next' = r.rest
         /\ ip_data' = r.val
         /\ pc' = "proto"
         /\ UNCHANGED result
    ELSE /\ result' = LogParseError(input, next, DataReason)
         /\ pc' = "done"
         /\ UNCHANGED <<next, ip_data>>

ParseIpData ==
    /\ pc = "data"
    /\ stages' = Append(stages, "data")
    /\ DataStep(parse_ip_data(next, ip_header))
    /\ UNCHANGED <<input, packet_filter, protocol, ip_header, shape, toks>>

\* let (_, proto_info) = parse_proto_info(next, &protocol.name).map_err(..)?
\* Ok(FwLog { .. })
ProtoStep(r) ==
    IF r.ok
    THEN result' = FwLog(packet_filter, ip_header, ip_data, protocol, r.val)
    ELSE result' = LogParseError(input, next, ProtoReason)

ParseProtoInfo ==
    /\ pc = "proto"
    /\ stages' = Append(stages, "proto")
    /\ ProtoStep(parse_proto_info(next, protocol.name))
    /\ pc' = "done"
    /\ UNCHANGED <<input, next, packet_filter, protocol, ip_header, ip_data,
                   shape, toks>>

Next == ParsePacketFilter \/ ParseIpHeader \/ ParseIpData \/ ParseProtoInfo

Spec == Init /\ [][Next]_vars

(* ------------------------------------------------------------------ *)
(* What a line says, read off its tokens                               *)
(* ------------------------------------------------------------------ *)

StageNames == <<"filter", "header", "data", "proto">>

StageReasons == <<FilterReason, HeaderReason, DataReason, ProtoReason>>

\* The stage (1..4) that reads field f
StageOf(f) ==
    IF f \in Range(FilterFields) THEN 1
    ELSE IF f \in Range(V4Fields) \cup Range(V6Fields) THEN 2
    ELSE IF f \in Range(DataFields) THEN 3
    ELSE 4

\* The fields of the line that hold a malformed token
Malformed == {f \in Range(FieldOrder(shape)) : toks[f] \in BadOf(f, shape)}

\* Every field of the line holds a well-formed token of its kind
WellFormed == \A f \in Range(FieldOrder(shape)) : toks[f] \in DOMAIN TypedOf(f, shape)

\* Every field read by the stages up to stage k is well-formed
WellFormedUpTo(k) ==
    \A f \in Range(FieldOrder(shape)) :
        StageOf(f) <= k => toks[f] \in DOMAIN TypedOf(f, shape)

\* The earliest stage with a malformed field
EarliestMalformed ==
    CHOOSE k \in 1..4 :
        /\ \E f \in Malformed : StageOf(f) = k
        /\ \A f \in Malformed : StageOf(f) >= k

\* The typed value the token of field f denotes
T(f) == TypedOf(f, shape)[toks[f]]

\* The text of the line after the fields of stage k
LineAfter(k) ==
    Join([i \in 1..Len(SelectSeq(FieldOrder(shape), LAMBDA f : StageOf(f) > k))
            |-> toks[SelectSeq(FieldOrder(shape), LAMBDA f : StageOf(f) > k)[i]]])

CodeOrder == shape.order = "code"

Failed(reason) ==
    result = [tag |-> "Err", raw_log |-> Line(shape, toks), reason |-> reason]

ExpectedFilter ==
    [rule_info |-> [number     |-> T("rulenr"),
                    subrulenr  |-> T("subrulenr"),
                    anchorname |-> T("anchorname"),
                    label      |-> T("label")],
     interface |-> T("interface"),
     reason    |-> T("reason"),
     action    |-> T("action"),
     dir       |-> T("dir")]

ExpectedV4 ==
    [tag |-> "IpV4", version |-> 4, tos |-> T("tos"), ecn |-> T("ecn"),
     ttl |-> T("ttl"), id |-> T("id"), offset |-> T("offset"),
     flags |-> T("flags")]

ExpectedV6 ==
    [tag |-> "Ipv6", traffic_class |-> T("class"),
     flow_label |-> T("flowlabel"), hoplimit |-> T("hoplimit")]

ExpectedProtocol == [name |-> T("protoname"), num |-> T("protonum")]

ExpectedData == [length |-> T("length"), src |-> T("src"), dst |-> T("dst")]

ExpectedPorts == [srcport |-> T("srcport"), dstport |-> T("dstport")]

ExpectedTcp ==
    [tag |-> "TcpInfo", ports |-> ExpectedPorts, data_len |-> T("datalen"),
     flags |-> T("tcpflags"), sequence_number |-> T("seq"),
     ack_number |-> T("ack"), window |-> T("window"), urg |-> T("urg"),
     options |-> T("options")]

ExpectedUdp ==
    [tag |-> "UdpInfo", ports |-> ExpectedPorts, data_len |-> T("udplen")]

V4Tcp == [ver |-> 4, proto |-> "tcp", order |-> "code"]

(* ------------------------------------------------------------------ *)
(* C1                                                                  *)
(* ------------------------------------------------------------------ *)

\* C1: whenever parse_log returns an error, its raw_log is the whole input
\* line and its reason is one of the four stage reasons; a line whose only
\* malformed field is the rule number gives the packet-filter error, the
\* TTL the IP-header error, an address the IP-data error and a port the
\* protocol-information error.
C1_ErrorCarriesWholeLine ==
    /\ result.tag = "Err" =>
          /\ result.raw_log = Line(shape, toks)
          /\ result.reason \in Range(StageReasons)
    /\ (pc = "done" /\ CodeOrder) =>
          /\ Malformed = {"rulenr"} => Failed(FilterReason)
          /\ Malformed = {"ttl"} => Failed(HeaderReason)
          /\ (Malformed # {} /\ Malformed \subseteq {"src", "dst"}) =>
                Failed(DataReason)
          /\ (Malformed # {} /\ Malformed \subseteq {"srcport", "dstport"}) =>
                Failed(ProtoReason)

\* A line whose source address alone is malformed has failed in the IP-data
\* stage, whose remainder is shorter than the line
C1_Witness ==
    /\ pc = "done"
    /\ Malformed = {"src"}
    /\ toks["src"] = <<"1", ".", "2", ".", "a", "3", ".", "4">>
    /\ result.tag = "Err"
    /\ result.reason = DataReason
    /\ next # input

(* ------------------------------------------------------------------ *)
(* C2                                                                  *)
(* ------------------------------------------------------------------ *)

\* The locals of the stages before stage k are set, those from k on are not
SetBefore(k) ==
    /\ (packet_filter # Unset) <=> (1 < k)
    /\ (protocol # Unset) <=> (2 < k)
    /\ (ip_header # Unset) <=> (2 < k)
    /\ (ip_data # Unset) <=> (3 < k)

\* C2: the stages run in the order filter, header, data, proto, each at
\* most once; the first that fails ends the call with its own error, with
\* every earlier stage having succeeded and no later stage run, and a record
\* is returned only after all four; so a line malformed in several stages
\* reports the earliest malformed one.
C2_FirstFailureEnds ==
    /\ Len(stages) <= 4
    /\ stages = SubSeq(StageNames, 1, Len(stages))
    /\ result.tag \in {"Unset", "Ok", "Err"}
    /\ result.tag = "Unset" => pc # "done" /\ SetBefore(Len(stages) + 1)
    /\ result.tag = "Err" =>
          /\ pc = "done"
          /\ Len(stages) >= 1
          /\ result.reason = StageReasons[Len(stages)]
          /\ DOMAIN result = {"tag", "raw_log", "reason"}
          /\ SetBefore(Len(stages))
    /\ result.tag = "Ok" => pc = "done" /\ Len(stages) = 4 /\ SetBefore(5)
    /\ (pc = "done" /\ CodeOrder /\ Malformed # {}) =>
          /\ Failed(StageReasons[EarliestMalformed])
          /\ Len(stages) = EarliestMalformed

\* A line malformed in the header stage and in the protocol stage has
\* stopped after the header stage
C2_Witness ==
    /\ pc = "done"
    /\ CodeOrder
    /\ Malformed = {"ttl", "srcport"}
    /\ stages = <<"filter", "header">>
    /\ result.tag = "Err"
    /\ result.reason = HeaderReason

(* ------------------------------------------------------------------ *)
(* C3                                                                  *)
(* ------------------------------------------------------------------ *)

\* C3: for every well-formed IPv4/TCP line parse_log succeeds and every
\* field of the record is the typed value of its token, with version 4,
\* protocol name Tcp and a TcpInfo.
C3_V4TcpRecord ==
    (shape = V4Tcp /\ WellFormed /\ pc = "done") =>
        /\ result = FwLog(ExpectedFilter, ExpectedV4, ExpectedData,
                          ExpectedProtocol, ExpectedTcp)
        /\ result.ip_specific.version = 4
        /\ result.protocol.name = [tag |-> "Tcp"]
        /\ result.proto_info.tag = "TcpInfo"

\* A well-formed IPv4/TCP line with every optional field present was parsed
C3_Witness ==
    /\ shape = V4Tcp
    /\ WellFormed
    /\ pc = "done"
    /\ result.tag = "Ok"
    /\ toks["ack"] # <<>>
    /\ toks["subrulenr"] # <<>>
    /\ result.ip_specific.ttl = 64

(* ------------------------------------------------------------------ *)
(* C4                                                                  *)
(* ------------------------------------------------------------------ *)

\* C4: a udp line gives a record only when the payload length is a
\* well-formed 32-bit number that ends the line, and then the record holds
\* UdpInfo with the ports and that length; with every other field
\* well-formed, a well-formed length at the end of the line gives the
\* record and anything else in its place, trailing text after a length
\* included, gives the protocol-information error.
C4_UdpLengthEndsLine ==
    (shape.proto = "udp" /\ pc = "done") =>
        /\ result.tag = "Ok" =>
              /\ toks["udplen"] \in DOMAIN U32Of
              /\ result.proto_info = ExpectedUdp
        /\ (CodeOrder /\ Malformed \subseteq {"udplen"}) =>
              IF toks["udplen"] \in DOMAIN U32Of
              THEN result.tag = "Ok"
              ELSE Failed(ProtoReason)

\* A udp line with a single comma after the payload length was refused
C4_Witness ==
    /\ shape.proto = "udp"
    /\ pc = "done"
    /\ toks["udplen"] = <<"8", "6", ",">>
    /\ Malformed = {"udplen"}
    /\ result.tag = "Err"
    /\ result.reason = ProtoReason

(* ------------------------------------------------------------------ *)
(* C5                                                                  *)
(* ------------------------------------------------------------------ *)

KeywordFields == {"reason", "action", "dir"}

\* C5: with the fields before them well-formed, the filter stage succeeds
\* exactly when the reason, action and direction tokens are each one of the
\* keywords, whole and in lower case, and then holds the keyword's value;
\* any other token makes the stage fail.
C5_KeywordsExact ==
    (Len(stages) >= 1 /\ Malformed \subseteq KeywordFields) =>
        IF /\ toks["reason"] \in {kw_match}
           /\ toks["action"] \in {kw_pass, kw_block, kw_reject}
           /\ toks["dir"] \in {kw_in, kw_out}
        THEN /\ packet_filter # Unset
             /\ packet_filter.reason = ReasonOf[toks["reason"]]
             /\ packet_filter.action = ActionOf[toks["action"]]
             /\ packet_filter.dir = DirOf[toks["dir"]]
        ELSE /\ packet_filter = Unset
             /\ Failed(FilterReason)

\* A line whose direction is "inner" was refused by the filter stage
C5_Witness ==
    /\ Len(stages) = 1
    /\ Malformed = {"dir"}
    /\ toks["dir"] = <<"i", "n", "n", "e", "r">>
    /\ packet_filter = Unset
    /\ result.tag = "Err"
    /\ result.reason = FilterReason

(* ------------------------------------------------------------------ *)
(* C6                                                                  *)
(* ------------------------------------------------------------------ *)

\* What the optional field f should hold, given the table of its kind
OptionalIs(v, f, table) ==
    IF toks[f] = <<>> THEN v = None
    ELSE toks[f] \in DOMAIN table /\ v = Some(table[toks[f]])

\* C6: an optional field holds None exactly when its run is empty and
\* otherwise Some of exactly the run's value, and a stage whose fields are
\* well-formed succeeds whether its optional fields are empty or not.
C6_OptionalFields ==
    /\ packet_filter # Unset =>
          /\ OptionalIs(packet_filter.rule_info.subrulenr, "subrulenr", U32Of)
          /\ OptionalIs(packet_filter.rule_info.anchorname, "anchorname",
                        Same(AlnumGood))
    /\ (ip_header # Unset /\ shape.ver = 4) =>
          OptionalIs(ip_header.ecn, "ecn", Same(AlnumGood))
    /\ (result.tag = "Ok" /\ shape.proto = "tcp") =>
          /\ OptionalIs(result.proto_info.ack_number, "ack", U32Of)
          /\ OptionalIs(result.proto_info.urg, "urg", U32Of)
    /\ (Len(stages) >= 1 /\ WellFormedUpTo(1)) => packet_filter # Unset
    /\ (Len(stages) >= 2 /\ WellFormedUpTo(2) /\ CodeOrder) => ip_header # Unset
    /\ (pc = "done" /\ WellFormed /\ CodeOrder /\ shape.proto = "tcp") =>
          result.tag = "Ok"

\* A TCP line with a sub-rule number and no ack number was parsed
C6_Witness ==
    /\ result.tag = "Ok"
    /\ shape.proto = "tcp"
    /\ toks["subrulenr"] # <<>>
    /\ toks["ack"] = <<>>
    /\ result.packet_filter.rule_info.subrulenr = Some(<<0, 7>>)
    /\ result.proto_info.ack_number = None

(* ------------------------------------------------------------------ *)
(* C7                                                                  *)
(* ------------------------------------------------------------------ *)

C8_RemainderVerbatim ==
    (shape.proto = "other" /\ Len(stages) = 4) =>
        IF toks["trailer"] # <<>>
        THEN /\ result.tag = "Ok"
             /\ result.proto_info = [tag |-> "UnknownInfo", text |-> toks["trailer"]]
        ELSE Failed(ProtoReason)

\* An icmp line whose remainder is "request,1,2" was refused by the
\* protocol-info stage
C8_Witness ==
    /\ shape.proto = "other"
    /\ Len(stages) = 4
    /\ protocol.name = [tag |-> "Other", name |-> <<"i", "c", "m", "p">>]
    /\ toks["trailer"] = <<"r", "e", "q", "u", "e", "s", "t", ",", "1", ",", "2">>
    /\ result.tag = "Err"
    /\ result.reason = ProtoReason

(* ------------------------------------------------------------------ *)
(* C9                                                                  *)
(* ------------------------------------------------------------------ *)

\* C9: with the filter and header fields and the length well-formed, an
\* address token that is no address of the line's version, an address of
\* the other version included, gives the IP-data error, and well-formed
\* addresses of the line's version are held as addresses of that version.
C9_AddressOfVersionOnly ==
    (CodeOrder /\ Len(stages) >= 3 /\ Malformed \subseteq {"src", "dst"}
       /\ WellFormedUpTo(2) /\ toks["length"] \in DOMAIN U16Of) =>
        IF Malformed = {}
        THEN ip_data = ExpectedData
        ELSE ip_data = Unset /\ Failed(DataReason)

\* A version-4 line whose source address is the IPv6 address ::1 was
\* refused by the IP-data stage
C9_Witness ==
    /\ shape.ver = 4
    /\ CodeOrder
    /\ toks["src"] = <<":", ":", "1">>
    /\ Malformed = {"src"}
    /\ stages = <<"filter", "header", "data">>
    /\ result.tag = "Err"
    /\ result.reason = DataReason

(* ------------------------------------------------------------------ *)
(* C10                                                                 *)
(* ------------------------------------------------------------------ *)

IsV4(a) == a.family = "V4" /\ Len(a.addr) = 4

IsV6(a) == a.family = "V6" /\ Len(a.addr) = 8

\* C10: in every record returned, ip_specific is IpV4 exactly when src and
\* dst are both IPv4 addresses and Ipv6 exactly when both are IPv6
\* addresses, and proto_info is TcpInfo, UdpInfo or UnknownInfo exactly when
\* protocol.name is Tcp, Udp or Other.
C10_RecordAgrees ==
    result.tag = "Ok" =>
        /\ result.ip_specific.tag \in {"IpV4", "Ipv6"}
        /\ result.ip_specific.tag = "IpV4" <=>
              (IsV4(result.ip_data.src) /\ IsV4(result.ip_data.dst))
        /\ result.ip_specific.tag = "Ipv6" <=>
              (IsV6(result.ip_data.src) /\ IsV6(result.ip_data.dst))
        /\ result.proto_info.tag \in {"TcpInfo", "UdpInfo", "UnknownInfo"}
        /\ result.proto_info.tag = "TcpInfo" <=> result.protocol.name.tag = "Tcp"
        /\ result.proto_info.tag = "UdpInfo" <=> result.protocol.name.tag = "Udp"
        /\ result.proto_info.tag = "UnknownInfo" <=>
              result.protocol.name.tag = "Other"

\* A version-6 line of another protocol gave a record
C10_Witness ==
    /\ result.tag = "Ok"
    /\ result.ip_specific.tag = "Ipv6"
    /\ IsV6(result.ip_data.src)
    /\ result.protocol.name.tag = "Other"
    /\ result.proto_info.tag = "UnknownInfo"

(* ------------------------------------------------------------------ *)
(* C11                                                                 *)
(* ------------------------------------------------------------------ *)

\* The protocol name a token denotes: tcp and udp by exact match, every
\* other token kept as it is
NameOf(t) ==
    IF t = <<"t", "c", "p">> THEN [tag |-> "Tcp"]
    ELSE IF t = <<"u", "d", "p">> THEN [tag |-> "Udp"]
    ELSE [tag |-> "Other", name |-> t]

\* The fields of the filter and header stages other than the protocol name
\* are well-formed
NameAlone ==
    \A f \in Range(FieldOrder(shape)) :
        (StageOf(f) <= 2 /\ f # "protoname") =>
            toks[f] \in DOMAIN TypedOf(f, shape)

\* C11 as stated: in the version-4 and the version-6 branch alike the
\* protocol-name token is mapped tcp to Tcp, udp to Udp and anything else to
\* Other of the token, and no spelling of it makes the header stage fail.
C11_NameNeverFails ==
    (CodeOrder /\ NameAlone /\ Len(stages) >= 2) =>
        /\ protocol # Unset
        /\ protocol.name = NameOf(toks["protoname"])

\* C11 for version 6 alone, where it holds
C11_NameNeverFailsV6 ==
    (shape.ver = 6 /\ CodeOrder /\ NameAlone /\ Len(stages) >= 2) =>
        /\ protocol # Unset
        /\ protocol.name = NameOf(toks["protoname"])

\* A version-4 line whose protocol name is ipv6-icmp was refused by the
\* header stage
C11_Witness ==
    /\ shape.ver = 4
    /\ NameAlone
    /\ toks["protoname"] = <<"i", "p", "v", "6", "-", "i", "c", "m", "p">>
    /\ stages = <<"filter", "header">>
    /\ protocol = Unset
    /\ result.tag = "Err"
    /\ result.reason = HeaderReason

(* ------------------------------------------------------------------ *)
(* C12                                                                 *)
(* ------------------------------------------------------------------ *)

\* The fields of the line other than f are well-formed
WellFormedBut(f) ==
    \A g \in Range(FieldOrder(shape)) :
        g # f => toks[g] \in DOMAIN TypedOf(g, shape)

\* C12: on a tcp line whose other fields are well-formed, whatever follows
\* the comma of the urgency pointer, nothing or text with commas included,
\* is held verbatim as the options, and the protocol-info stage succeeds.
C12_OptionsAreTheRemainder ==
    (shape.proto = "tcp" /\ CodeOrder /\ WellFormedBut("options")
       /\ pc = "done") =>
        /\ result.tag = "Ok"
        /\ result.proto_info.tag = "TcpInfo"
        /\ result.proto_info.options = toks["options"]
        /\ result.proto_info.urg = T("urg")

\* A tcp line whose remainder after the urgency pointer is "a,b" was parsed
\* with that remainder as its options
C12_Witness ==
    /\ shape.proto = "tcp"
    /\ pc = "done"
    /\ toks["options"] = <<"a", ",", "b">>
    /\ result.tag = "Ok"
    /\ result.proto_info.options = <<"a", ",", "b">>

(* ------------------------------------------------------------------ *)
(* C13                                                                 *)
(* ------------------------------------------------------------------ *)

RECURSIVE HexValue(_)
\* The number a run of hex digits denotes, most significant digit first
HexValue(ds) ==
    IF ds = <<>> THEN 0
    ELSE 16 * HexValue(SubSeq(ds, 1, Len(ds) - 1)) + DigitVal[ds[Len(ds)]]

\* The token is 0x or 0X, then one or more hex digits, of value at most 255
IsHexByte(t) ==
    /\ Len(t) >= 3
    /\ t[1] = "0"
    /\ t[2] \in {"x", "X"}
    /\ \A i \in 3..Len(t) : t[i] \in HexDigit
    /\ HexValue(SubSeq(t, 3, Len(t))) <= 255

\* The hexadecimal field of the line's header
HexField == IF shape.ver = 4 THEN "tos" ELSE "class"

\* C13: with the other fields of the filter and header stages well-formed,
\* the header stage succeeds exactly when the type-of-service or
\* traffic-class token is 0x or 0X followed by one or more hex digits of
\* value at most 255, and then holds that value; every other token gives
\* the IP-header error.
C13_HexByte ==
    (CodeOrder /\ Len(stages) >= 2 /\ Malformed \subseteq {HexField}
       /\ WellFormedUpTo(1)
       /\ \A f \in Range(HeaderFields(shape)) :
             f # HexField => toks[f] \in DOMAIN TypedOf(f, shape)) =>
        IF IsHexByte(toks[HexField])
        THEN /\ ip_header # Unset
             /\ (IF shape.ver = 4 THEN ip_header.tos
                 ELSE ip_header.traffic_class)
                  = HexValue(SubSeq(toks[HexField], 3, Len(toks[HexField])))
        ELSE /\ ip_header = Unset
             /\ Failed(HeaderReason)

\* A line whose type of service is 0x100 was refused by the header stage
C13_Witness ==
    /\ shape.ver = 4
    /\ toks["tos"] = <<"0", "x", "1", "0", "0">>
    /\ Malformed = {"tos"}
    /\ stages = <<"filter", "header">>
    /\ ip_header = Unset
    /\ result.tag = "Err"
    /\ result.reason = HeaderReason

(* ------------------------------------------------------------------ *)
(* C14                                                                 *)
(* ------------------------------------------------------------------ *)

\* The header fields after the version marker are well-formed
HeaderWellFormed ==
    \A f \in Range(HeaderFields(shape)) :
        f # "ipver" => toks[f] \in DOMAIN TypedOf(f, shape)

\* C14: after a successful filter stage, a version token other than 4 and
\* 6 gives the IP-header error whatever the later fields hold; the token 4
\* has the header fields read by the version-4 grammar and the token 6 by
\* the version-6 grammar, so a well-formed header is accepted under its own
\* marker and refused under the other one.
C14_VersionMarker ==
    (CodeOrder /\ Len(stages) >= 2 /\ WellFormedUpTo(1)) =>
        /\ toks["ipver"] \notin {<<"4">>, <<"6">>} =>
              /\ ip_header = Unset
              /\ protocol = Unset
              /\ Failed(HeaderReason)
        /\ ip_header # Unset =>
              /\ toks["ipver"] \in {<<"4">>, <<"6">>}
              /\ ip_header.tag = (IF toks["ipver"] = <<"4">> THEN "IpV4" ELSE "Ipv6")
        /\ HeaderWellFormed =>
              IF toks["ipver"] = (IF shape.ver = 4 THEN <<"4">> ELSE <<"6">>)
              THEN /\ ip_header # Unset
                   /\ ip_header.tag = (IF shape.ver = 4 THEN "IpV4" ELSE "Ipv6")
              ELSE /\ ip_header = Unset
                   /\ Failed(HeaderReason)

\* A line whose version token is 46 was refused by the header stage
C14_Witness ==
    /\ toks["ipver"] = <<"4", "6">>
    /\ WellFormedUpTo(1)
    /\ HeaderWellFormed
    /\ stages = <<"filter", "header">>
    /\ packet_filter # Unset
    /\ ip_header = Unset
    /\ result.tag = "Err"
    /\ result.reason = HeaderReason

(* ------------------------------------------------------------------ *)
(* parse_log on cut lines: every line of the model whole, and the two  *)
(* base lines of every shape cut after each of their characters, the   *)
(* empty string included                                               *)
(* ------------------------------------------------------------------ *)

\* The lengths the line of tokens t is cut to
Cuts(s, t) ==
    IF t \in {BaseA(s), BaseB(s)} THEN 0..Len(Line(s, t)) ELSE {Len(Line(s, t))}

InitCut ==
    /\ shape \in Shapes
    /\ toks \in Variants(shape)
    /\ input \in {Take(Line(shape, toks), n) : n \in Cuts(shape, toks)}
    /\ pc = "filter"
    /\ next = input
    /\ packet_filter = Unset
    /\ protocol = Unset
    /\ ip_header = Unset
    /\ ip_data = Unset
    /\ result = Unset
    /\ stages = <<>>

SpecCut == InitCut /\ [][Next]_vars

(* ------------------------------------------------------------------ *)
(* C15                                                                 *)
(* ------------------------------------------------------------------ *)

\* C15: on every input, cut lines and the empty string included, parse_log
\* never panics, is at one of its four stages until it has returned, which
\* it has after at most four steps, and returns either a record with every
\* part filled or one LogParseError holding the input and one of the four
\* reasons.
C15_AlwaysAResult ==
    /\ result # Panic
    /\ Len(stages) <= 4
    /\ pc # "done" =>
          /\ result = Unset
          /\ Len(stages) < 4
          /\ pc = StageNames[Len(stages) + 1]
    /\ pc = "done" =>
          \/ /\ result.tag = "Err"
             /\ DOMAIN result = {"tag", "raw_log", "reason"}
             /\ result.raw_log = input
             /\ result.reason \in Range(StageReasons)
          \/ /\ result.tag = "Ok"
             /\ result.packet_filter # Unset
             /\ result.ip_specific.tag \in {"IpV4", "Ipv6"}
             /\ result.ip_data # Unset
             /\ result.protocol.name.tag \in {"Tcp", "Udp", "Other"}
             /\ result.proto_info.tag \in {"TcpInfo", "UdpInfo", "UnknownInfo"}

\* The empty string was refused by the filter stage
C15_Witness ==
    /\ input = <<>>
    /\ pc = "done"
    /\ stages = <<"filter">>
    /\ result = [tag |-> "Err", raw_log |-> <<>>, reason |-> FilterReason]

\* A line cut inside its header, after an unrecognised protocol name, was
\* refused
C15_WitnessCut ==
    /\ Len(input) < Len(Line(shape, toks))
    /\ Len(input) > 0
    /\ pc = "done"
    /\ Len(stages) >= 3
    /\ protocol # Unset
    /\ protocol.name.tag = "Other"
    /\ result.tag = "Err"

(* ------------------------------------------------------------------ *)
(* C16                                                                 *)
(* ------------------------------------------------------------------ *)

\* The bits of the decimal field f, 0 when f is no decimal field
Width(f) ==
    CASE Kind(f, shape) = "u8" -> 8
      [] Kind(f, shape) = "u16" -> 16
      [] Kind(f, shape) \in {"u32", "optu32", "u32end"} -> 32
      [] OTHER -> 0

\* The greatest number of w bits, in decimal
MaxOf(w) ==
    CASE w = 8 -> <<"2", "5", "5">>
      [] w = 16 -> <<"6", "5", "5", "3", "5">>
      [] w = 32 -> <<"4", "2", "9", "4", "9", "6", "7", "2", "9", "5">>

RECURSIVE Stripped(_)
\* The digits t without their leading zeros
Stripped(t) == IF t # <<>> /\ t[1] = "0" THEN Stripped(Tail(t)) ELSE t

\* The digits a denote a greater number than the digits b, neither with a
\* leading zero
Greater(a, b) ==
    \/ Len(a) > Len(b)
    \/ /\ Len(a) = Len(b)
       /\ \E i \in 1..Len(a) :
             /\ DigitVal[a[i]] > DigitVal[b[i]]
             /\ \A j \in 1..(i - 1) : a[j] = b[j]

\* The token of field f is a decimal number too great for the field's type
Exceeds(f) ==
    /\ Width(f) # 0
    /\ toks[f] # <<>>
    /\ \A i \in 1..Len(toks[f]) : toks[f][i] \in Digit
    /\ Greater(Stripped(toks[f]), MaxOf(Width(f)))

\* C16: a line with a decimal field whose number exceeds the width of the
\* field's type gives no record, and when that field is the line's only
\* malformed one the error is that of the stage that reads the field.
C16_OverflowRejected ==
    (CodeOrder /\ pc = "done") =>
        \A f \in Range(FieldOrder(shape)) :
            Exceeds(f) =>
                /\ result.tag = "Err"
                /\ Malformed = {f} => Failed(StageReasons[StageOf(f)])

\* A line whose window is 4294967296 was refused by the protocol-info stage
C16_Witness ==
    /\ shape.proto = "tcp"
    /\ CodeOrder
    /\ pc = "done"
    /\ Exceeds("window")
    /\ toks["window"] = <<"4", "2", "9", "4", "9", "6", "7", "2", "9", "6">>
    /\ Malformed = {"window"}
    /\ result.tag = "Err"
    /\ result.reason = ProtoReason

====
